---- MODULE Spec2Model ----
(***************************************************************************)
(* get_cmb_data.py: fetch the daily K-lines of one instrument with a       *)
(* bounded retry, parse each comma-joined record, write data/cmb.csv.      *)
(*                                                                         *)
(* Text is modelled as sequences of one-character strings, so that         *)
(* str.split, float(), int() and the CSV rendering are computed character  *)
(* by character.  A float is modelled as the exact decimal                 *)
(* (-1)^neg * n / 10^p with no trailing zero in the fraction; this is      *)
(* what a binary double round-trips to (float() then repr()) for decimal   *)
(* literals of at most 15 significant digits whose magnitude lies in       *)
(* [1e-4, 1e16), the only literals the model feeds it.  float() accepts    *)
(* here the grammar [sign] digits [. digits] (and ".5", "7."); exponents,  *)
(* inf, nan, underscores and blanks do not occur in the modelled inputs.   *)
(***************************************************************************)
EXTENDS Integers, Sequences, FiniteSets, TLC

\* ------------------------------------------------------------------ bounds
\* longest data.klines list a response carries
MaxKlines == 2
\* number of times the script is run, one after the other, on the same disk
MaxRuns == 2

\* ------------------------------------------------------- program constants
\* @retry(stop_max_attempt_number=3, ...)
stop_max_attempt_number == 3

\* --------------------------------------------------------------- text
DigitChars == <<"0", "1", "2", "3", "4", "5", "6", "7", "8", "9">>

IsDigit(c) == \E i \in 1..10 : DigitChars[i] = c

DigitVal(c) == (CHOOSE i \in 1..10 : DigitChars[i] = c) - 1

AllDigits(s) == \A i \in 1..Len(s) : IsDigit(s[i])

RECURSIVE Pow10(_)
Pow10(p) == IF p = 0 THEN 1 ELSE 10 * Pow10(p - 1)

\* value of the first k characters of a string of decimal digits
RECURSIVE DigitsPrefixVal(_, _)
DigitsPrefixVal(s, k) ==
    IF k = 0 THEN 0 ELSE 10 * DigitsPrefixVal(s, k - 1) + DigitVal(s[k])

\* value of a string of decimal digits ("" counts 0)
DigitsVal(s) == DigitsPrefixVal(s, Len(s))

\* decimal digits of a natural number, no leading zero ("0" for 0)
RECURSIVE NatStr(_)
NatStr(n) ==
    IF n < 10 THEN <<DigitChars[n + 1]>>
    ELSE NatStr(n \div 10) \o <<DigitChars[(n % 10) + 1]>>

\* the digits of n, left-padded with "0" to width w
RECURSIVE PadStr(_, _)
PadStr(n, w) ==
    IF w = 0 THEN <<>>
    ELSE PadStr(n \div 10, w - 1) \o <<DigitChars[(n % 10) + 1]>>

\* str.split(sep): every sep cuts, empty fields are kept, "" gives [""];
\* field k lies between the (k-1)-th and the k-th sep
split(s, sep) ==
    LET cuts == {i \in 1..Len(s) : s[i] = sep}
        n == Cardinality(cuts)
        cut(k) ==
            IF k = 0 THEN 0
            ELSE IF k = n + 1 THEN Len(s) + 1
            ELSE CHOOSE i \in cuts : Cardinality({j \in cuts : j < i}) = k - 1
    IN  [k \in 1..(n + 1) |-> SubSeq(s, cut(k - 1) + 1, cut(k) - 1)]

\* sep.join of the first k fields
RECURSIVE JoinPrefix(_, _, _)
JoinPrefix(fields, sep, k) ==
    IF k = 0 THEN <<>>
    ELSE IF k = 1 THEN fields[1]
    ELSE JoinPrefix(fields, sep, k - 1) \o <<sep>> \o fields[k]

\* sep.join(fields)
join(fields, sep) == JoinPrefix(fields, sep, Len(fields))

\* --------------------------------------------------------- float and int
FloatError == [ok |-> FALSE, neg |-> FALSE, n |-> 0, p |-> 0]

\* drop the trailing zeros of the fraction: 88.50 and 88.5 are one double
RECURSIVE Normalise(_, _, _)
Normalise(neg, n, p) ==
    IF p > 0 /\ n % 10 = 0 THEN Normalise(neg, n \div 10, p - 1)
    ELSE [ok |-> TRUE, neg |-> neg, n |-> n, p |-> p]

\* float(s): ok = FALSE stands for the ValueError it raises
float(s) ==
    LET signed == Len(s) > 0 /\ s[1] \in {"+", "-"}
        neg    == Len(s) > 0 /\ s[1] = "-"
        body   == IF signed THEN Tail(s) ELSE s
        parts  == split(body, ".")
        ip     == parts[1]
        fp     == IF Len(parts) = 2 THEN parts[2] ELSE <<>>
        wellformed ==
            /\ Len(parts) <= 2
            /\ AllDigits(ip)
            /\ AllDigits(fp)
            /\ Len(ip) + Len(fp) >= 1
    IN  IF wellformed THEN Normalise(neg, DigitsVal(ip \o fp), Len(fp))
        ELSE FloatError

\* variant: rounding down instead of towards zero
int_floor(f) ==
    LET q == f.n \div Pow10(f.p)
    IN  IF f.neg /\ f.n % Pow10(f.p) # 0 THEN 0 - q - 1
        ELSE IF f.neg THEN 0 - q ELSE q

\* int(f) of a finite float: the fraction is discarded, towards zero
int(f) ==
    LET q == f.n \div Pow10(f.p)
    IN  IF f.neg THEN 0 - q ELSE q

\* repr of a float, as to_csv writes a float64 cell: at least one digit
\* after the point, no trailing zero beyond it
float_repr(f) ==
    LET whole == f.n \div Pow10(f.p)
        frac  == f.n % Pow10(f.p)
    IN  (IF f.neg THEN <<"-">> ELSE <<>>)
          \o NatStr(whole) \o <<".">>
          \o (IF f.p = 0 THEN <<"0">> ELSE PadStr(frac, f.p))

\* str of an int, as to_csv writes an int64 cell
int_str(i) == IF i < 0 THEN <<"-">> \o NatStr(0 - i) ELSE NatStr(i)

\* ------------------------------------------------------ the parsed record
\* keys of the dict literal, in insertion order
RowKeys == <<"Date", "Open", "Close", "High", "Low", "Volume", "Amount">>

KeyText ==
    [Date   |-> <<"D", "a", "t", "e">>,
     Open   |-> <<"O", "p", "e", "n">>,
     Close  |-> <<"C", "l", "o", "s", "e">>,
     High   |-> <<"H", "i", "g", "h">>,
     Low    |-> <<"L", "o", "w">>,
     Volume |-> <<"V", "o", "l", "u", "m", "e">>,
     Amount |-> <<"A", "m", "o", "u", "n", "t">>]

\* the first exception the dict literal raises for parts, "" when it
\* builds: the entries are evaluated top to bottom, parts[i] before the
\* conversion applied to it (Python indexes from 0, the model from 1)
RowError(parts) ==
    LET bad(i) ==
            IF Len(parts) < i THEN "IndexError"
            ELSE IF i > 1 /\ ~float(parts[i]).ok THEN "ValueError"
            ELSE ""
        firstBad == CHOOSE i \in 1..7 : bad(i) # "" /\ \A j \in 1..(i - 1) : bad(j) = ""
    IN  IF \E i \in 1..7 : bad(i) # "" THEN bad(firstBad) ELSE ""

\* the dict appended for one item
Row(parts) ==
    [Date   |-> parts[1],
     Open   |-> float(parts[2]),
     Close  |-> float(parts[3]),
     High   |-> float(parts[4]),
     Low    |-> float(parts[5]),
     Volume |-> int(float(parts[6])),
     Amount |-> float(parts[7])]

\* ------------------------------------------------------------ DataFrame
\* pd.DataFrame(list of dicts): the columns are the keys of the dicts in
\* order of first appearance; an empty list gives a frame with no column
Columns(rows) == IF rows = <<>> THEN <<>> ELSE RowKeys

\* one cell as to_csv writes it: object column as is, int64, float64
Cell(row, k) ==
    IF k = "Date" THEN row.Date
    ELSE IF k = "Volume" THEN int_str(row.Volume)
    ELSE float_repr(row[k])

\* df.to_csv(index=False): the header line, then one line per row; every
\* line ends with a newline, so the file is the sequence of its lines
to_csv(rows) ==
    LET cols == Columns(rows)
        header == join([i \in 1..Len(cols) |-> KeyText[cols[i]]], ",")
        line(r) == join([i \in 1..Len(cols) |-> Cell(r, cols[i])], ",")
    IN  <<header>> \o [i \in 1..Len(rows) |-> line(rows[i])]

\* ------------------------------------------------------------- responses
\* the seven fields of two well-formed upstream records; B carries the
\* signs, the whole numbers and the negative volume
FieldsA == <<<<"2", "0", "1", "0", "0", "1", "0", "4">>, <<"7", ".", "1">>, <<"7", ".", "2", "5">>, <<"7", ".", "3">>,
             <<"7">>, <<"1", "2", ".", "9">>, <<"8", "8", ".", "5", "0">>>>
FieldsB == <<<<"2", "0", "1", "0", "0", "1", "0", "5">>, <<"-", "0", ".", "5">>, <<"3">>, <<"1", "0", ".", "0">>,
             <<"0", ".", "2", "5">>, <<"-", "1", "2", ".", "9">>, <<"1", "0", "0">>>>

ItemA == join(FieldsA, ",")
ItemB == join(FieldsB, ",")
\* six fields: the amount is missing
ItemShort == join(SubSeq(FieldsA, 1, 6), ",")
\* eight fields: one more than requested
ItemLong == join(FieldsA \o <<<<"9">>>>, ",")
\* seven fields, the close is no number
ItemBad == join([FieldsA EXCEPT ![3] = <<"x">>], ",")

Items == {ItemA, ItemB, ItemShort, ItemLong, ItemBad}

KlinesLists == UNION {[1..n -> Items] : n \in 0..MaxKlines}

\* the decoded JSON bodies: {} , {"data": null}, {"data": {}},
\* {"data": {"klines": [...]}}
NoBody == [shape |-> "none", klines |-> <<>>]

Bodies ==
    {[shape |-> sh, klines |-> <<>>] : sh \in {"noData", "nullData", "noKlines"}}
      \cup {[shape |-> "ok", klines |-> ks] : ks \in KlinesLists}

\* what one call of fetch_data raises: requests.get (connection, timeout),
\* raise_for_status, response.json
FetchErrors == {"ConnectionError", "HTTPError", "JSONDecodeError"}

\* data/cmb.csv before the first run: absent, or left by someone else
NoFile == [exists |-> FALSE, lines |-> <<>>]
OldFile == [exists |-> TRUE, lines |-> <<<<"o", "l", "d">>>>]

NoExc == [kind |-> "", stage |-> ""]
NoOk == [some |-> FALSE, klines |-> <<>>, csv |-> <<>>]

\* ----------------------------------------------------------------- state
VARIABLES
    run,             \* which run of the script this is, 1..MaxRuns
    pc,              \* where the run stands
    attempt_number,  \* the retry loop's counter of calls of fetch_data
    outcomes,        \* history: what each call of fetch_data did, in order
    exc,             \* the exception in flight or caught, NoExc when none
    body,            \* what fetch_data() returned to line 32
    data,            \* the klines list
    idx,             \* position of the for loop in data
    parsed_data,     \* the list of dicts
    file,            \* data/cmb.csv on disk
    file0,           \* history: data/cmb.csv when this run started
    stdout,          \* what this run printed
    wrote,           \* history: to_csv returned in this run
    lastOk,          \* history: klines and file of the latest run that wrote
    prevOk           \* history: lastOk as it was before this run wrote

vars == <<run, pc, attempt_number, outcomes, exc, body, data, idx,
          parsed_data, file, file0, stdout, wrote, lastOk, prevOk>>

Init ==
    /\ run = 1
    /\ pc = "call"
    /\ attempt_number = 1
    /\ outcomes = <<>>
    /\ exc = NoExc
    /\ body = NoBody
    /\ data = <<>>
    /\ idx = 1
    /\ parsed_data = <<>>
    /\ file \in {NoFile, OldFile}
    /\ file0 = file
    /\ stdout = <<>>
    /\ wrote = FALSE
    /\ lastOk = NoOk
    /\ prevOk = NoOk

\* ------------------------------------------------------- the retry loop
\* variant: only connection errors are retried
retry_on_exception_connection(kind) == kind = "ConnectionError"

\* the decorator's default: every exception is retried
retry_on_exception(kind) == TRUE

\* variant: results are retried too
retry_on_result_always(b) == TRUE

\* the decorator's default: no result is retried
retry_on_result(b) == FALSE

\* variant: stopping one attempt later
stop_late(n) == n > stop_max_attempt_number

\* stop_after_attempt
stop(n) == n >= stop_max_attempt_number

\* one call of fetch_data raises: sleep and call again, or re-raise the
\* exception of this call once stop says so
FetchRaises ==
    /\ pc = "call"
    /\ \E kind \in FetchErrors :
        /\ outcomes' = Append(outcomes, [ok |-> FALSE, body |-> NoBody])
        /\ exc' = [kind |-> kind, stage |-> "fetch"]
        /\ pc' = IF retry_on_exception(kind) /\ ~stop(attempt_number)
                 THEN "sleep" ELSE "raised"
    /\ UNCHANGED <<run, attempt_number, body, data, idx, parsed_data, file,
                   file0, stdout, wrote, lastOk, prevOk>>

\* one call of fetch_data returns the decoded body: the loop hands it on
FetchReturns ==
    /\ pc = "call"
    /\ \E b \in Bodies :
        /\ outcomes' = Append(outcomes, [ok |-> TRUE, body |-> b])
        /\ IF retry_on_result(b)
           THEN /\ body' = body
                /\ exc' = IF stop(attempt_number)
                          THEN [kind |-> "RetryError", stage |-> "fetch"]
                          ELSE exc
                /\ pc' = IF stop(attempt_number) THEN "raised" ELSE "sleep"
           ELSE /\ body' = b
                /\ exc' = NoExc
                /\ pc' = "lookup"
    /\ UNCHANGED <<run, attempt_number, data, idx, parsed_data, file,
                   file0, stdout, wrote, lastOk, prevOk>>

\* wait_fixed=2000, then the next attempt
Sleep ==
    /\ pc = "sleep"
    /\ attempt_number' = attempt_number + 1
    /\ pc' = "call"
    /\ UNCHANGED <<run, outcomes, exc, body, data, idx, parsed_data, file,
                   file0, stdout, wrote, lastOk, prevOk>>

\* ------------------------------------------------------ the try block
\* fetch_data()["data"]["klines"], then parsed_data = []
Lookup ==
    /\ pc = "lookup"
    /\ IF body.shape = "ok"
       THEN /\ data' = body.klines
            /\ parsed_data' = <<>>
            /\ idx' = 1
            /\ exc' = exc
            /\ pc' = "loop"
       ELSE /\ exc' = [kind  |-> IF body.shape = "nullData" THEN "TypeError"
                                 ELSE "KeyError",
                       stage |-> "lookup"]
            /\ pc' = "raised"
            /\ UNCHANGED <<data, parsed_data, idx>>
    /\ UNCHANGED <<run, attempt_number, outcomes, body, file, file0, stdout,
                   wrote, lastOk, prevOk>>

\* variant: the file is rewritten after every record
LoopIter_flush ==
    /\ pc = "loop"
    /\ idx <= Len(data)
    /\ \E parts \in {split(data[idx], ",")} : \E err \in {RowError(parts)} :
           IF err = ""
           THEN /\ parsed_data' = Append(parsed_data, Row(parts))
                /\ file' = [exists |-> TRUE, lines |-> to_csv(parsed_data')]
                /\ idx' = idx + 1
                /\ UNCHANGED <<exc, pc>>
           ELSE /\ exc' = [kind |-> err, stage |-> "parse"]
                /\ pc' = "raised"
                /\ UNCHANGED <<parsed_data, idx, file>>
    /\ UNCHANGED <<run, attempt_number, outcomes, body, data, file0,
                   stdout, wrote, lastOk, prevOk>>

\* variant: the dict is put in front of the list
LoopIter_prepend ==
    /\ pc = "loop"
    /\ idx <= Len(data)
    /\ \E parts \in {split(data[idx], ",")} : \E err \in {RowError(parts)} :
           IF err = ""
           THEN /\ parsed_data' = <<Row(parts)>> \o parsed_data
                /\ idx' = idx + 1
                /\ UNCHANGED <<exc, pc>>
           ELSE /\ exc' = [kind |-> err, stage |-> "parse"]
                /\ pc' = "raised"
                /\ UNCHANGED <<parsed_data, idx>>
    /\ UNCHANGED <<run, attempt_number, outcomes, body, data, file, file0,
                   stdout, wrote, lastOk, prevOk>>

\* one pass of the for loop: split the item, build its dict, append it
\* (parts and the exception are bound once, by \E over a singleton)
LoopIter ==
    /\ pc = "loop"
    /\ idx <= Len(data)
    /\ \E parts \in {split(data[idx], ",")} : \E err \in {RowError(parts)} :
           IF err = ""
           THEN /\ parsed_data' = Append(parsed_data, Row(parts))
                /\ idx' = idx + 1
                /\ UNCHANGED <<exc, pc>>
           ELSE /\ exc' = [kind |-> err, stage |-> "parse"]
                /\ pc' = "raised"
                /\ UNCHANGED <<parsed_data, idx>>
    /\ UNCHANGED <<run, attempt_number, outcomes, body, data, file, file0,
                   stdout, wrote, lastOk, prevOk>>

\* variant: the file is opened for appending
Written_append(old, rows) ==
    [exists |-> TRUE, lines |-> old.lines \o to_csv(rows)]

\* what open(..., "w") followed by the write leaves on disk
Written(old, rows) == [exists |-> TRUE, lines |-> to_csv(rows)]

\* pd.DataFrame(parsed_data) and df.to_csv('data/cmb.csv', index=False),
\* once the loop is through
Write ==
    /\ pc = "loop"
    /\ idx > Len(data)
    /\ file' = Written(file, parsed_data)
    /\ wrote' = TRUE
    /\ prevOk' = lastOk
    /\ lastOk' = [some |-> TRUE, klines |-> data, csv |-> file'.lines]
    /\ pc' = "print"
    /\ UNCHANGED <<run, attempt_number, outcomes, exc, body, data, idx,
                   parsed_data, file0, stdout>>

\* to_csv raises OSError: open fails (no data directory, no permission)
\* and the disk is as it was, or the write fails after open truncated the
\* file, with the few buffered lines never reaching the disk
WriteFails ==
    /\ pc = "loop"
    /\ idx > Len(data)
    /\ \/ file' = file
       \/ file' = [exists |-> TRUE, lines |-> <<>>]
    /\ exc' = [kind |-> "OSError", stage |-> "write"]
    /\ pc' = "raised"
    /\ UNCHANGED <<run, attempt_number, outcomes, body, data, idx,
                   parsed_data, file0, stdout, wrote, lastOk, prevOk>>

\* print("数据获取成功，已保存到 data/cmb.csv")
PrintSuccess ==
    /\ pc = "print"
    /\ stdout' = Append(stdout, [text |-> "success", detail |-> ""])
    /\ pc' = "done"
    /\ UNCHANGED <<run, attempt_number, outcomes, exc, body, data, idx,
                   parsed_data, file, file0, wrote, lastOk, prevOk>>

\* ------------------------------------------------------------ the handler
\* variant: except requests.RequestException
IsException_requests(kind) == kind \in FetchErrors

\* the classes "except Exception" catches: every one raised above
IsException(kind) ==
    kind \in {"ConnectionError", "HTTPError", "JSONDecodeError", "RetryError",
              "KeyError", "TypeError", "IndexError", "ValueError", "OSError"}

\* except Exception as e: print(f"数据获取失败: {str(e)}"); an exception the
\* clause does not catch ends the script with a traceback
Handler ==
    /\ pc = "raised"
    /\ IF IsException(exc.kind)
       THEN /\ stdout' = Append(stdout, [text |-> "failure", detail |-> exc.kind])
            /\ pc' = "done"
       ELSE /\ stdout' = stdout
            /\ pc' = "crashed"
    /\ UNCHANGED <<run, attempt_number, outcomes, exc, body, data, idx,
                   parsed_data, file, file0, wrote, lastOk, prevOk>>

\* the script is started again; only the disk carries over
NextRun ==
    /\ pc = "done"
    /\ run < MaxRuns
    /\ run' = run + 1
    /\ pc' = "call"
    /\ attempt_number' = 1
    /\ outcomes' = <<>>
    /\ exc' = NoExc
    /\ body' = NoBody
    /\ data' = <<>>
    /\ idx' = 1
    /\ parsed_data' = <<>>
    /\ file0' = file
    /\ stdout' = <<>>
    /\ wrote' = FALSE
    /\ prevOk' = NoOk
    /\ UNCHANGED <<file, lastOk>>

Next ==
    \/ FetchRaises
    \/ FetchReturns
    \/ Sleep
    \/ Lookup
    \/ LoopIter
    \/ Write
    \/ WriteFails
    \/ PrintSuccess
    \/ Handler
    \/ NextRun

Spec == Init /\ [][Next]_vars

TypeOK ==
    /\ run \in 1..MaxRuns
    /\ pc \in {"call", "sleep", "lookup", "loop", "print", "raised", "done", "crashed"}
    /\ attempt_number \in 1..stop_max_attempt_number
    /\ Len(outcomes) <= attempt_number
    /\ idx \in 1..(Len(data) + 1)

\* ------------------------------------------------- what the claims refer to
\* the run is past to_csv
Succeeded == wrote /\ pc \in {"print", "done"}

Failed(stage) == pc \in {"raised", "done"} /\ exc.stage = stage

AllFailed == \A k \in 1..Len(outcomes) : ~outcomes[k].ok

\* the values the two well-formed records stand for, in hundredths, and
\* the lines a CSV of them holds, written out by hand
TruthA == [Date |-> <<"2", "0", "1", "0", "0", "1", "0", "4">>,
           Open |-> 710, Close |-> 725, High |-> 730, Low |-> 700,
           Volume |-> 12, Amount |-> 8850]
TruthB == [Date |-> <<"2", "0", "1", "0", "0", "1", "0", "5">>,
           Open |-> 0 - 50, Close |-> 300, High |-> 1000, Low |-> 25,
           Volume |-> 0 - 12, Amount |-> 10000]

LineA == <<"2", "0", "1", "0", "0", "1", "0", "4", ",", "7", ".", "1", ",",
           "7", ".", "2", "5", ",", "7", ".", "3", ",", "7", ".", "0", ",",
           "1", "2", ",", "8", "8", ".", "5">>
LineB == <<"2", "0", "1", "0", "0", "1", "0", "5", ",", "-", "0", ".", "5",
           ",", "3", ".", "0", ",", "1", "0", ".", "0", ",", "0", ".", "2",
           "5", ",", "-", "1", "2", ",", "1", "0", "0", ".", "0">>
HeaderLine == <<"D", "a", "t", "e", ",", "O", "p", "e", "n", ",", "C", "l", "o",
                "s", "e", ",", "H", "i", "g", "h", ",", "L", "o", "w", ",", "V",
                "o", "l", "u", "m", "e", ",", "A", "m", "o", "u", "n", "t">>

WellFormed(ks) == \A i \in 1..Len(ks) : ks[i] \in {ItemA, ItemB}

Truth(item) == IF item = ItemB THEN TruthB ELSE TruthA

Line(item) == IF item = ItemB THEN LineB ELSE LineA

\* a float of at most two decimals, in hundredths
Hundredths(f) ==
    LET h == (f.n * 100) \div Pow10(f.p)
    IN  IF f.neg THEN 0 - h ELSE h

\* ---------------------------------------------------------------- claims
\* C1: a run makes at most 3 HTTP attempts; an attempt is made only after
\* every earlier one failed; when all 3 fail, the exception of the last
\* one leaves fetch_data and reaches the handler, nothing is returned,
\* written or reported as a success.
C1_AtMostThreeAttempts ==
    /\ Len(outcomes) <= 3
    /\ \A k \in 1..(Len(outcomes) - 1) : ~outcomes[k].ok
    /\ (Len(outcomes) = 3 /\ AllFailed) =>
          /\ pc \in {"raised", "done"}
          /\ exc.stage = "fetch"
          /\ exc.kind \in FetchErrors
          /\ body = NoBody
          /\ ~wrote
          /\ pc = "done" => stdout = <<[text |-> "failure", detail |-> exc.kind]>>

C1_Witness == Len(outcomes) = 3 /\ AllFailed /\ pc = "done"

\* C2: when attempt k is the first to succeed, 1 <= k <= 3, fetch_data
\* returns the body that attempt decoded and no attempt follows it.
C2_FirstSuccessReturned ==
    \A k \in 1..Len(outcomes) :
        outcomes[k].ok =>
            /\ k = Len(outcomes)
            /\ k \in 1..3
            /\ body = outcomes[k].body
            /\ pc \notin {"call", "sleep"}
            /\ exc.stage # "fetch"

C2_Witness ==
    /\ Len(outcomes) = 3
    /\ ~outcomes[1].ok /\ ~outcomes[2].ok /\ outcomes[3].ok
    /\ body = outcomes[3].body
    /\ body.shape = "ok"
    /\ pc = "done"

\* C3: the file is as the run found it until the fetch has succeeded and
\* every record is parsed; a run that fails in the fetch, in the key
\* lookup or on any record, the last included, leaves it absent or with
\* its old content.
C3_NoWriteBeforeParsed ==
    /\ pc \in {"call", "sleep", "lookup", "loop"} => file = file0 /\ ~wrote
    /\ (Failed("fetch") \/ Failed("lookup") \/ Failed("parse")) =>
          file = file0 /\ ~wrote

C3_Witness ==
    /\ pc = "done"
    /\ exc.stage = "parse"
    /\ Len(data) >= 2
    /\ idx = Len(data)
    /\ file0.exists
    /\ file = file0

\* C4: for a well-formed response of N records a successful run leaves a
\* file of N + 1 lines, and line i + 1 is the CSV line of record i.
C4_OneRowPerRecord ==
    (Succeeded /\ WellFormed(data)) =>
        /\ file.exists
        /\ Len(file.lines) = Len(data) + 1
        /\ \A i \in 1..Len(data) : file.lines[i + 1] = Line(data[i])

C4_Witness ==
    /\ Succeeded
    /\ pc = "done"
    /\ Len(data) = 2
    /\ data[1] = ItemA
    /\ data[2] = ItemB

\* C5 (as claimed): a response holding a record that does not split into
\* exactly 7 fields, fewer or more, never gets a file written.
C5_NotSevenFieldsFails ==
    (\E i \in 1..Len(data) : Len(split(data[i], ",")) # 7) => ~wrote

\* C6 (as claimed): whenever a run wrote the file, an empty klines list
\* included, its first line names the seven columns in order.
C6_HeaderAlways ==
    Succeeded => Len(file.lines) >= 1 /\ file.lines[1] = HeaderLine

\* C7: every parsed record carries field 1 as its Date, unchanged, the
\* values of fields 2 to 5 as Open, Close, High, Low, the value of field
\* 6 cut towards zero as Volume and the value of field 7 as Amount; the
\* line written for it shows these values.
C7_PositionalConversion ==
    /\ \A i \in 1..Len(parsed_data) :
          LET r == parsed_data[i]
              t == Truth(data[i])
          IN  /\ r.Date = t.Date
              /\ Hundredths(r.Open) = t.Open
              /\ Hundredths(r.Close) = t.Close
              /\ Hundredths(r.High) = t.High
              /\ Hundredths(r.Low) = t.Low
              /\ r.Volume = t.Volume
              /\ Hundredths(r.Amount) = t.Amount
    /\ Succeeded =>
          \A i \in 1..Len(data) : file.lines[i + 1] = Line(data[i])

C7_Witness ==
    /\ Succeeded
    /\ pc = "done"
    /\ \E i \in 1..Len(data) : data[i] = ItemB /\ parsed_data[i].Volume = 0 - 12

\* C8: two runs that wrote for the same response left the same file, line
\* for line, whatever was on disk before either of them.
C8_SameResponseSameFile ==
    /\ (prevOk.some /\ prevOk.klines = lastOk.klines) => prevOk.csv = lastOk.csv
    /\ Succeeded => file.lines = lastOk.csv /\ lastOk.klines = data

C8_Witness ==
    /\ pc = "done"
    /\ Succeeded
    /\ prevOk.some
    /\ prevOk.klines = lastOk.klines
    /\ Len(lastOk.klines) >= 1
    /\ file = file0

\* C9: a run ends with exactly one message and no exception leaves the
\* script: the success message, printed after to_csv returned, or the
\* failure message of the exception caught, whatever stage raised it; and
\* every step of a run leaves it fewer steps to take, so that it ends.
C9_Outcome ==
    /\ pc # "crashed"
    /\ pc # "done" => stdout = <<>>
    /\ pc = "print" => wrote
    /\ pc = "done" =>
          /\ Len(stdout) = 1
          /\ stdout[1].text \in {"success", "failure"}
          /\ stdout[1].text = "success" => wrote /\ exc = NoExc
          /\ stdout[1].text = "failure" =>
                /\ exc.stage \in {"fetch", "lookup", "parse", "write"}
                /\ stdout[1].detail = exc.kind
                /\ ~wrote

\* the steps the run can still take, at most
Rank ==
    CASE pc = "call"   -> 2 * (stop_max_attempt_number - attempt_number) + MaxKlines + 4
      [] pc = "sleep"  -> 2 * (stop_max_attempt_number - attempt_number) + MaxKlines + 3
      [] pc = "lookup" -> MaxKlines + 3
      [] pc = "loop"   -> (Len(data) + 1 - idx) + 2
      [] pc = "print"  -> 1
      [] pc = "raised" -> 1
      [] OTHER         -> 0

C9_OneTerminalOutcome ==
    /\ []C9_Outcome
    /\ [](Rank >= 0)
    /\ [][run' = run => Rank' < Rank]_vars

C9_Witness ==
    /\ pc = "done"
    /\ exc.stage = "write"
    /\ stdout = <<[text |-> "failure", detail |-> "OSError"]>>

====
